---- MODULE Spec2Model ----
(***************************************************************************)
(* Model of src/src/glyphs_provider.ts (class GlyphsProvider): the loader  *)
(* _loadGlyphData, the markup generator _getHtmlForWebview and the panel   *)
(* controller resolveWebviewView with its onDidReceiveMessage handler.     *)
(*                                                                         *)
(* Strings of the program (keys, names, categories, glyphs) are sequences  *)
(* of one-character strings, so that the regular expressions, trim,        *)
(* lower-casing and whitespace removal are computed character by           *)
(* character.  The static chunks of the HTML template are single tokens.   *)
(***************************************************************************)
EXTENDS Integers, Sequences, FiniteSets, TLC

VARIABLES
  file,              \* the resource file snippets/snippets.code-snippets
  html,              \* webviewView.webview.html
  enableScripts,     \* webviewView.webview.options.enableScripts
  listeners,         \* handlers attached through onDidReceiveMessage
  renders,           \* one record per call of _getHtmlForWebview
  errorMessages,     \* calls of vscode.window.showErrorMessage
  consoleErrors,     \* calls of console.error
  uncaught,          \* an exception escaped _loadGlyphData into its caller
  activeTextEditor,  \* vscode.window.activeTextEditor
  selections,        \* activeTextEditor.selections ({} without editor)
  messages           \* the messages posted by the panel, in posting order

vars == <<file, html, enableScripts, listeners, renders, errorMessages,
          consoleErrors, uncaught, activeTextEditor, selections, messages>>

loadVars == <<file, html, enableScripts, listeners, renders, errorMessages,
              consoleErrors, uncaught>>

editorVars == <<activeTextEditor, selections, messages>>

-----------------------------------------------------------------------------
(* Bounds of the model.                                                    *)

MaxKeyLen == 4      \* longest key explored character by character
MaxEntries == 2     \* most members of a resource file built from SampleKeys
MaxResolves == 2    \* most calls of resolveWebviewView
MaxMessages == 2    \* most messages posted by the panel
MaxSelections == 2  \* most simultaneous selections of one editor

-----------------------------------------------------------------------------
(* Characters and strings.                                                 *)

Alphabet == {"F", "a", " ", ":"}

Digits == {"0", "1", "2", "3", "4", "5", "6", "7", "8", "9"}

DigitVal(c) ==
  CASE c = "0" -> 0 [] c = "1" -> 1 [] c = "2" -> 2 [] c = "3" -> 3
    [] c = "4" -> 4 [] c = "5" -> 5 [] c = "6" -> 6 [] c = "7" -> 7
    [] c = "8" -> 8 [] OTHER -> 9

\* /\s/ and the characters String.prototype.trim strips
IsSpace(c) == c \in {" ", "\t", "\n"}

\* one character of String.prototype.toLocaleLowerCase
LowerChar(c) ==
  CASE c = "F" -> "f" [] c = "A" -> "a" [] c = "O" -> "o" [] OTHER -> c

toLocaleLowerCase(s) == [i \in 1..Len(s) |-> LowerChar(s[i])]

RECURSIVE TrimStart(_)
TrimStart(s) ==
  IF s # <<>> /\ IsSpace(Head(s)) THEN TrimStart(Tail(s)) ELSE s

RECURSIVE TrimEnd(_)
TrimEnd(s) ==
  IF s # <<>> /\ IsSpace(s[Len(s)]) THEN TrimEnd(SubSeq(s, 1, Len(s) - 1)) ELSE s

\* String.prototype.trim
trim(s) == TrimEnd(TrimStart(s))

\* s.replace(/\s/g, '')
RemoveWhitespace(s) == SelectSeq(s, LAMBDA c : ~IsSpace(c))

\* index of the first ':' of s, 0 when s has none
FirstColon(s) ==
  IF \E i \in 1..Len(s) : s[i] = ":"
  THEN CHOOSE i \in 1..Len(s) : s[i] = ":" /\ \A j \in 1..(i - 1) : s[j] # ":"
  ELSE 0

\* the prefix patterns written with * for +: a leading colon matches too
PrefixMatchesStar(fullKey) == FirstColon(fullKey) >= 1

\* whether /^([^:]+):/ and /^[^:]+:\s*/ match: a colon preceded by at least
\* one character
PrefixMatches(fullKey) == FirstColon(fullKey) >= 2

\* fullKey.match(/^([^:]+):/)[1]
CategoryMatch(fullKey) == SubSeq(fullKey, 1, FirstColon(fullKey) - 1)

Other == <<"o", "t", "h", "e", "r">>

\* categoryMatch ? categoryMatch[1].trim().toLocaleLowerCase().replace(/\s/g, '') : 'other'
Category(fullKey) ==
  IF PrefixMatches(fullKey)
  THEN RemoveWhitespace(toLocaleLowerCase(trim(CategoryMatch(fullKey))))
  ELSE Other

\* fullKey.replace(/^[^:]+:\s*/, '').trim()
Name(fullKey) ==
  IF PrefixMatches(fullKey)
  THEN trim(TrimStart(SubSeq(fullKey, FirstColon(fullKey) + 1, Len(fullKey))))
  ELSE trim(fullKey)

-----------------------------------------------------------------------------
(* The resource file and JSON.parse.                                       *)

\* A member "key": {"body": [...], "prefix": [...]} of the file's object.
\* hasBody = FALSE is a member whose value has no "body" property.
Member(k, hb, b) == [key |-> k, hasBody |-> hb, body |-> b]

HasOwnPropertyKey ==
  <<"h", "a", "s", "O", "w", "n", "P", "r", "o", "p", "e", "r", "t", "y">>

\* The own property keys of JSON.parse's object in creation order: a repeated
\* name keeps the place of its first occurrence.
RECURSIVE CreationOrder(_)
CreationOrder(members) ==
  IF members = <<>> THEN <<>>
  ELSE LET init == CreationOrder(SubSeq(members, 1, Len(members) - 1))
           k == members[Len(members)].key
       IN IF \E i \in 1..Len(init) : init[i] = k THEN init ELSE Append(init, k)

\* snippets[fullKey]: a repeated name takes its last value
Lookup(members, k) ==
  LET last == CHOOSE i \in 1..Len(members) :
                 /\ members[i].key = k
                 /\ \A j \in (i + 1)..Len(members) : members[j].key # k
  IN members[last]

\* canonical numeric string: an integer index of the object
IsIntegerIndex(k) ==
  /\ k # <<>>
  /\ \A i \in 1..Len(k) : k[i] \in Digits
  /\ (Len(k) > 1 => k[1] # "0")

RECURSIVE NumVal(_)
NumVal(k) ==
  IF k = <<>> THEN 0
  ELSE 10 * NumVal(SubSeq(k, 1, Len(k) - 1)) + DigitVal(k[Len(k)])

RECURSIVE Ascending(_)
Ascending(ks) ==
  IF ks = {} THEN <<>>
  ELSE LET m == CHOOSE k \in ks : \A o \in ks : NumVal(k) <= NumVal(o)
       IN <<m>> \o Ascending(ks \ {m})

\* for (const fullKey in snippets): integer indices in ascending numeric
\* order, then the other own keys in creation order
ForInOrder(members) ==
  LET order == CreationOrder(members)
      idx == {order[i] : i \in {j \in 1..Len(order) : IsIntegerIndex(order[j])}}
  IN Ascending(idx) \o SelectSeq(order, LAMBDA k : ~IsIntegerIndex(k))

-----------------------------------------------------------------------------
(* _loadGlyphData                                                          *)

\* snippets.hasOwnProperty(fullKey) is a call of the member named
\* "hasOwnProperty" when the file has one (an object, not a function), and
\* snippet.body[0] reads index 0 of undefined when the member has no body:
\* both throw a TypeError inside the try block.
IterationThrows(members, k) ==
  \/ \E i \in 1..Len(members) : members[i].key = HasOwnPropertyKey
  \/ ~Lookup(members, k).hasBody

\* const glyph = snippet.body[0], with undefined and '' both falsy
Glyph(snippet) == IF snippet.body = <<>> THEN <<>> ELSE snippet.body[1]

\* the body of the for loop, iterated over the keys ks
RECURSIVE LoopOver(_, _)
LoopOver(members, ks) ==
  IF ks = <<>> THEN <<>>
  ELSE LET fullKey == Head(ks)
           glyph == Glyph(Lookup(members, fullKey))
           rest == LoopOver(members, Tail(ks))
       IN IF glyph # <<>>
          THEN <<[glyph |-> glyph, name |-> Name(fullKey),
                  category |-> Category(fullKey)]>> \o rest
          ELSE rest

\* whether the try block throws: readFileSync (kind "missing": the file is
\* absent or unreadable), JSON.parse (kind "malformed") or an iteration of
\* the loop.  Kind "scalar" is a file holding JSON null, a number or a
\* boolean: it parses, and for-in over it iterates nothing.
TryThrows(f) ==
  \/ f.kind \in {"missing", "malformed"}
  \/ /\ f.kind = "object"
     /\ \E i \in 1..Len(f.members) : IterationThrows(f.members, f.members[i].key)

\* a try block around JSON.parse alone, with readFileSync and the loop
\* outside of it
CaughtParseOnly(f) == f.kind = "malformed"

\* what the catch clause covers: the whole body of the function
Caught(f) == TryThrows(f)

\* The result of one call: the returned array, the notifications and log
\* entries it made and whether an exception left the function.
loadGlyphData(f) ==
  IF TryThrows(f)
  THEN IF Caught(f)
       THEN [primitives |-> <<>>, notified |-> 1, logged |-> 1, raised |-> FALSE]
       ELSE [primitives |-> <<>>, notified |-> 0, logged |-> 0, raised |-> TRUE]
  ELSE [primitives |->
          IF f.kind = "object" THEN LoopOver(f.members, ForInOrder(f.members))
          ELSE <<>>,
        notified |-> 0, logged |-> 0, raised |-> FALSE]

-----------------------------------------------------------------------------
(* _getHtmlForWebview                                                      *)

HtmlHead == "<!DOCTYPE html>...<style>...</style></head><body>"
ButtonOpen == "<button class=\"glyph-button "
TitleAttr == "\" title=\""
TagEnd == "\">"
ButtonClose == "</button>"
HtmlScript == "<script>...</script></body></html>"

\* the button with name and glyph in each other's place
ButtonSwapped(item) ==
  <<ButtonOpen>> \o item.category \o <<TitleAttr>> \o item.glyph
     \o <<TagEnd>> \o item.name \o <<ButtonClose>>

\* `<button class="glyph-button ${item.category}" title="${item.name}">${item.glyph}</button>`
Button(item) ==
  <<ButtonOpen>> \o item.category \o <<TitleAttr>> \o item.name
     \o <<TagEnd>> \o item.glyph \o <<ButtonClose>>

\* bqnPrimitives.map(...).join('')
RECURSIVE GlyphButtons(_)
GlyphButtons(items) ==
  IF items = <<>> THEN <<>> ELSE Button(Head(items)) \o GlyphButtons(Tail(items))

\* the template literal around ${glyphButtons}
Markup(items) == <<HtmlHead>> \o GlyphButtons(items) \o <<HtmlScript>>

-----------------------------------------------------------------------------
(* resolveWebviewView                                                      *)

\* An exception that leaves _loadGlyphData leaves _getHtmlForWebview and
\* resolveWebviewView too: the html is not set and no handler is attached.
resolveWebviewView ==
  /\ Len(renders) < MaxResolves
  /\ LET r == loadGlyphData(file)
     IN /\ enableScripts' = TRUE
        /\ errorMessages' = errorMessages + r.notified
        /\ consoleErrors' = consoleErrors + r.logged
        /\ uncaught' = (uncaught \/ r.raised)
        /\ renders' = Append(renders,
              [file |-> file, primitives |-> r.primitives,
               notified |-> r.notified, logged |-> r.logged,
               raised |-> r.raised, attached |-> ~r.raised,
               html |-> IF r.raised THEN <<>> ELSE Markup(r.primitives)])
        /\ html' = IF r.raised THEN html ELSE Markup(r.primitives)
        /\ listeners' = IF r.raised THEN listeners ELSE listeners + 1
  /\ UNCHANGED <<file, editorVars>>

\* The resource file is read again at every resolve; between two resolves it
\* may have lost a member or have been deleted.
FileEdited ==
  /\ renders # <<>>
  /\ Len(renders) < MaxResolves
  /\ file.kind = "object"
  /\ \/ \E i \in 1..Len(file.members) :
          file' = [file EXCEPT !.members =
                     SubSeq(file.members, 1, i - 1)
                       \o SubSeq(file.members, i + 1, Len(file.members))]
     \/ file' = [kind |-> "missing", members |-> <<>>]
  /\ UNCHANGED <<html, enableScripts, listeners, renders, errorMessages,
                 consoleErrors, uncaught, editorVars>>

-----------------------------------------------------------------------------
(* The resource files explored.                                            *)

RECURSIVE SeqsUpTo(_, _)
SeqsUpTo(S, n) ==
  IF n = 0 THEN {<<>>}
  ELSE LET shorter == SeqsUpTo(S, n - 1)
       IN shorter \cup {Append(s, x) : s \in {t \in shorter : Len(t) = n - 1}, x \in S}

G == <<"g">>
H == <<"h">>

\* bodies: [], [""], ["g"], ["h", "g"]
Bodies == {<<>>, << <<>> >>, <<G>>, <<H, G>>}

AllKeys == SeqsUpTo(Alphabet, MaxKeyLen)

OtherColonKey == <<"O", "t", "h", "e", "r", ":", " ", "a">>

SampleKeys ==
  { <<"F", ":", "a">>, <<"a">>, <<"2">>, <<"1", "0">>, OtherColonKey,
    HasOwnPropertyKey }

SampleMembers ==
  {Member(k, TRUE, b) : k \in SampleKeys, b \in {<< <<>> >>, <<G>>}}
    \cup {Member(<<"a">>, TRUE, <<>>), Member(<<"a">>, FALSE, <<>>),
          Member(<<"F", ":", "a">>, TRUE, <<H, G>>)}

ObjectFile(ms) == [kind |-> "object", members |-> ms]

\* one member with any key of AllKeys, or up to MaxEntries members with
\* keys of SampleKeys, or no usable file at all
LoadFiles ==
  {ObjectFile(<<Member(k, TRUE, b)>>) : k \in AllKeys, b \in Bodies}
    \cup {ObjectFile(ms) : ms \in SeqsUpTo(SampleMembers, MaxEntries)}
    \cup {[kind |-> kd, members |-> <<>>] : kd \in {"missing", "malformed", "scalar"}}

-----------------------------------------------------------------------------
(* The editors of the host and the messages of the panel.                  *)

NoEditor == "none"

Editors == {"e1", "e2"}

\* editor.document
Document(editor) == IF editor = "e1" THEN "d1" ELSE "d2"

NoDocument == "none"

Commands == {"insertGlyph", "refresh"}

\* message.glyph: the text of the clicked button
Glyphs == {"g"}

\* editor.selections: the ranges 1..n of an editor with n selections.  The
\* handler reads the selections of the active editor only, inside the
\* callback that editor.edit calls before it returns, so the model keeps the
\* selections of the active editor and no others.
SelectionSets == {1..n : n \in 1..MaxSelections}

SelectionsFor(editor) == IF editor = NoEditor THEN {{}} ELSE SelectionSets

\* A posted message with what its handling has done so far.
\*   phase     "queued": posted, handler not yet run; "returned": handler
\*             returned with nothing pending; "editing": edit submitted, its
\*             promise pending; "fulfilled": promise resolved, then-callback
\*             not yet run; "revealed": then-callback has run
\*   editor    the const editor of the handler's closure
\*   edits     calls of editor.edit; replaced: the editBuilder.replace calls
\*   notices   calls of showInformationMessage
\*   reveals   calls of showTextDocument, shown: the document passed last
\*   activeAtHandling, selectionsAtHandling, order: what the host held when
\*             the handler ran and the handler's place among the runs
Posted(cmd, g) ==
  [command |-> cmd, glyph |-> g, phase |-> "queued", editor |-> NoEditor,
   edits |-> 0, replaced |-> {}, notices |-> <<>>, reveals |-> 0,
   shown |-> NoDocument, activeAtHandling |-> NoEditor,
   selectionsAtHandling |-> {}, order |-> 0]

\* the panel's script (or any sender on the channel) posts a message
postMessage ==
  /\ enableScripts
  /\ html # <<>>
  /\ Len(messages) < MaxMessages
  /\ \E cmd \in Commands, g \in Glyphs :
       messages' = Append(messages, Posted(cmd, g))
  /\ UNCHANGED <<loadVars, activeTextEditor, selections>>

NoActiveEditorNotice == "No active editor to insert glyph into."

\* the edit built from editor.selection, the primary selection alone
ReplacementsPrimary(sels, glyph) == {[range |-> 1, text |-> glyph]}

\* editor.selections.forEach(selection => editBuilder.replace(selection, message.glyph))
Replacements(sels, glyph) == {[range |-> r, text |-> glyph] : r \in sels}

\* a handler without the switch: every message is taken for insertGlyph
HandledAnyCommand(m, active, sels) ==
  IF active = NoEditor
  THEN [m EXCEPT !.phase = "returned", !.notices = Append(@, NoActiveEditorNotice)]
  ELSE [m EXCEPT !.phase = "editing", !.editor = active, !.edits = @ + 1,
                 !.replaced = Replacements(sels, m.glyph)]

\* a handler that stays silent when there is no editor
HandledSilently(m, active, sels) ==
  IF m.command = "insertGlyph" /\ active # NoEditor
  THEN [m EXCEPT !.phase = "editing", !.editor = active, !.edits = @ + 1,
                 !.replaced = Replacements(sels, m.glyph)]
  ELSE [m EXCEPT !.phase = "returned"]

\* a handler that waits for the edit and reveals before it returns
HandledAwaiting(m, active, sels) ==
  IF m.command = "insertGlyph"
  THEN IF active = NoEditor
       THEN [m EXCEPT !.phase = "returned", !.notices = Append(@, NoActiveEditorNotice)]
       ELSE [m EXCEPT !.phase = "revealed", !.editor = active, !.edits = @ + 1,
                      !.replaced = Replacements(sels, m.glyph),
                      !.reveals = @ + 1, !.shown = Document(active)]
  ELSE [m EXCEPT !.phase = "returned"]

\* The handler body, from the switch to its return: what it has done to the
\* message when it returns, given the active editor and the selections.
Handled(m, active, sels) ==
  IF m.command = "insertGlyph"
  THEN IF active = NoEditor
       THEN [m EXCEPT !.phase = "returned", !.notices = Append(@, NoActiveEditorNotice)]
       ELSE [m EXCEPT !.phase = "editing", !.editor = active, !.edits = @ + 1,
                      !.replaced = Replacements(sels, m.glyph)]
  ELSE [m EXCEPT !.phase = "returned"]

Queued == {i \in 1..Len(messages) : messages[i].phase = "queued"}

HandledCount == Len(messages) - Cardinality(Queued)

\* the host delivers the posted messages to the listener in posting order
NextQueued == CHOOSE i \in Queued : \A j \in Queued : i <= j

\* the listener of onDidReceiveMessage runs on the next message
onDidReceiveMessage ==
  /\ listeners > 0
  /\ Queued # {}
  /\ LET i == NextQueued
         done == Handled(messages[i], activeTextEditor, selections)
     IN messages' = [messages EXCEPT ![i] =
                       [done EXCEPT !.activeAtHandling = activeTextEditor,
                                    !.selectionsAtHandling = selections,
                                    !.order = HandledCount + 1]]
  /\ UNCHANGED <<loadVars, activeTextEditor, selections>>

\* The host settles the promise of editor.edit, with true or false; the
\* handler passes no rejection callback and ignores the value.
editSettles(i) ==
  /\ i \in 1..Len(messages)
  /\ messages[i].phase = "editing"
  /\ messages' = [messages EXCEPT ![i].phase = "fulfilled"]
  /\ UNCHANGED <<loadVars, activeTextEditor, selections>>

\* the callback revealing the document of whichever editor is active then
RevealTargetActive(m) ==
  IF activeTextEditor = NoEditor THEN NoDocument ELSE Document(activeTextEditor)

\* editor.document, of the editor captured by the handler
RevealTarget(m) == Document(m.editor)

\* when the then-callback of message m may run
ThenReadyEarly(m) == m.phase \in {"editing", "fulfilled"}

\* .then(...) runs its callback once the promise is fulfilled
ThenReady(m) == m.phase = "fulfilled"

\* .then(() => { vscode.window.showTextDocument(editor.document); })
thenCallback(i) ==
  /\ i \in 1..Len(messages)
  /\ ThenReady(messages[i])
  /\ messages' = [messages EXCEPT ![i] =
                    [@ EXCEPT !.phase = "revealed", !.reveals = @ + 1,
                              !.shown = RevealTarget(messages[i])]]
  /\ UNCHANGED <<loadVars, activeTextEditor, selections>>

\* the user focuses another editor, with the selections it has, or closes
\* the last one
activeEditorChanges ==
  /\ \E e \in (Editors \cup {NoEditor}) \ {activeTextEditor} :
       /\ activeTextEditor' = e
       /\ selections' \in SelectionsFor(e)
  /\ UNCHANGED <<loadVars, messages>>

\* the user adds or removes cursors in the active editor
selectionsChange ==
  /\ activeTextEditor # NoEditor
  /\ \E sels \in SelectionSets \ {selections} : selections' = sels
  /\ UNCHANGED <<loadVars, activeTextEditor, messages>>

-----------------------------------------------------------------------------
(* Specifications.                                                         *)

InitCommon ==
  /\ html = <<>>
  /\ enableScripts = FALSE
  /\ listeners = 0
  /\ renders = <<>>
  /\ errorMessages = 0
  /\ consoleErrors = 0
  /\ uncaught = FALSE
  /\ messages = <<>>

\* the loader on every file of LoadFiles, with no editor open
InitLoad ==
  /\ file \in LoadFiles
  /\ InitCommon
  /\ activeTextEditor = NoEditor
  /\ selections = {}

NextLoad == resolveWebviewView \/ FileEdited

SpecLoad == InitLoad /\ [][NextLoad]_vars

\* a resource file whose palette has buttons to click
PanelFile ==
  ObjectFile(<<Member(<<"F", ":", "a">>, TRUE, <<G>>),
               Member(<<"a">>, TRUE, <<G>>)>>)

\* the panel with any editor state of the host
Init ==
  /\ file = PanelFile
  /\ InitCommon
  /\ activeTextEditor \in Editors \cup {NoEditor}
  /\ selections \in SelectionsFor(activeTextEditor)

\* Spec follows one panel, which the host resolves once.
resolvePanel == renders = <<>> /\ resolveWebviewView

Next ==
  \/ resolvePanel
  \/ postMessage
  \/ onDidReceiveMessage
  \/ \E i \in 1..MaxMessages : editSettles(i)
  \/ \E i \in 1..MaxMessages : thenCallback(i)
  \/ activeEditorChanges
  \/ selectionsChange

Spec == Init /\ [][Next]_vars

\* A settled promise's callback is a job of the host's job queue, which
\* runs every job it holds.
FairSpec ==
  Spec /\ \A i \in 1..MaxMessages : WF_vars(thenCallback(i))

-----------------------------------------------------------------------------
(* Properties of the loader and of the markup, under SpecLoad.             *)

HasColon(k) == \E i \in 1..Len(k) : k[i] = ":"

DistinctKeys(ms) ==
  \A i, j \in 1..Len(ms) : ms[i].key = ms[j].key => i = j

\* a file that parses as key -> {body: [strings], prefix: [strings]}
WellFormed(f) ==
  /\ f.kind = "object"
  /\ DistinctKeys(f.members)
  /\ \A i \in 1..Len(f.members) : f.members[i].hasBody

NonEmptyFirstLine(m) == m.hasBody /\ m.body # <<>> /\ m.body[1] # <<>>

\* the records of the entries with a non-empty first body line, in the order
\* the entries have in the file
RECURSIVE FileOrderRecords(_)
FileOrderRecords(ms) ==
  IF ms = <<>> THEN <<>>
  ELSE LET m == Head(ms)
       IN (IF NonEmptyFirstLine(m)
           THEN <<[glyph |-> m.body[1], name |-> Name(m.key),
                   category |-> Category(m.key)]>>
           ELSE <<>>) \o FileOrderRecords(Tail(ms))

\* C1 (as claimed): for every well-formed resource file the load returns
\* exactly the records of the entries whose first body line is non-empty, in
\* the order the entries have in the file, entries with an empty body giving
\* none and changing nothing for the others.
C1_FileOrder ==
  \A i \in 1..Len(renders) :
    WellFormed(renders[i].file) =>
      /\ renders[i].primitives = FileOrderRecords(renders[i].file.members)
      /\ Len(renders[i].primitives) <= Len(renders[i].file.members)

\* Beside C1: the file order does hold for the well-formed
\* files none of whose keys is an integer index or "hasOwnProperty".
C1_FileOrderOfPlainKeys ==
  \A i \in 1..Len(renders) :
    LET ms == renders[i].file.members
    IN (/\ WellFormed(renders[i].file)
        /\ \A j \in 1..Len(ms) :
             ~IsIntegerIndex(ms[j].key) /\ ms[j].key # HasOwnPropertyKey) =>
         renders[i].primitives = FileOrderRecords(ms)

\* the single-member renders that produced a record
KeyedRenders ==
  {i \in 1..Len(renders) :
     /\ renders[i].file.kind = "object"
     /\ Len(renders[i].file.members) = 1
     /\ Len(renders[i].primitives) = 1}

KeyOf(i) == renders[i].file.members[1].key

Normalized(text) == RemoveWhitespace(toLocaleLowerCase(trim(text)))

BeforeColon(k) == SubSeq(k, 1, FirstColon(k) - 1)

AfterColon(k) == SubSeq(k, FirstColon(k) + 1, Len(k))

\* C2 (as claimed): a key with a colon gives the category "text before the
\* first colon, trimmed, lowercased, whitespace removed" and the name "text
\* after the first colon, trimmed"; a key without colon gives "other" and
\* the trimmed key; the category is "other" only for keys without colon.
C2_AnyColon ==
  \A i \in KeyedRenders :
    LET k == KeyOf(i)
        rec == renders[i].primitives[1]
    IN /\ HasColon(k) =>
            /\ rec.category = Normalized(BeforeColon(k))
            /\ rec.name = trim(AfterColon(k))
       /\ ~HasColon(k) => (rec.category = Other /\ rec.name = trim(k))
       /\ rec.category = Other => ~HasColon(k)

\* C2 (amended): a key whose first colon is preceded by at least one
\* character gives the normalized text before that colon as category and the
\* trimmed text after it as name; any other key (no colon, or a colon at the
\* very start) gives the category "other" and the whole trimmed key as name;
\* the category is "other" exactly for those keys and for keys whose prefix
\* normalizes to "other".
C2_CategoryAndName ==
  \A i \in KeyedRenders :
    LET k == KeyOf(i)
        rec == renders[i].primitives[1]
        prefixed == HasColon(k) /\ k[1] # ":"
    IN /\ prefixed =>
            /\ rec.category = Normalized(BeforeColon(k))
            /\ rec.name = trim(AfterColon(k))
       /\ ~prefixed => (rec.category = Other /\ rec.name = trim(k))
       /\ rec.category = Other <=>
            (~prefixed \/ Normalized(BeforeColon(k)) = Other)

\* a key whose prefix needs trimming and lowercasing has been loaded
C2_Witness ==
  \E i \in KeyedRenders :
    /\ KeyOf(i) = <<" ", "F", ":", "a">>
    /\ renders[i].primitives[1].category = <<"f">>
    /\ renders[i].primitives[1].name = <<"a">>

LoadFails(f) == f.kind \in {"missing", "malformed"}

\* C3: a load of a missing, unreadable or unparseable file returns the empty
\* sequence, notifies once, logs once and raises nothing; the resolve still
\* sets the markup, with no button, and attaches the handler.
C3_LoadFailure ==
  /\ ~uncaught
  /\ \A i \in 1..Len(renders) :
       LoadFails(renders[i].file) =>
         /\ renders[i].primitives = <<>>
         /\ renders[i].notified = 1
         /\ renders[i].logged = 1
         /\ ~renders[i].raised
         /\ renders[i].html = <<HtmlHead, HtmlScript>>
         /\ renders[i].attached
  /\ errorMessages = Cardinality({i \in 1..Len(renders) : renders[i].notified = 1})
  /\ consoleErrors = errorMessages
  /\ renders # <<>> =>
       /\ html = renders[Len(renders)].html
       /\ listeners = Len(renders)

\* a panel resolved with a palette, then resolved again after the file
\* was deleted: one notification, no button, handler attached again
C3_Witness ==
  /\ Len(renders) = 2
  /\ renders[1].file.kind = "object" /\ renders[1].primitives # <<>>
  /\ renders[2].file.kind = "missing"
  /\ html = <<HtmlHead, HtmlScript>>
  /\ errorMessages = 1
  /\ consoleErrors = 1
  /\ listeners = 2

Count(seq, tok) == Cardinality({i \in 1..Len(seq) : seq[i] = tok})

IndexOf(seq, tok) == CHOOSE i \in 1..Len(seq) :
                        seq[i] = tok /\ \A j \in 1..(i - 1) : seq[j] # tok

\* the buttons read back from the markup between head and script
RECURSIVE ParseButtons(_)
ParseButtons(h) ==
  IF h = <<>> THEN <<>>
  ELSE LET t == IndexOf(h, TitleAttr)
           e == IndexOf(h, TagEnd)
           c == IndexOf(h, ButtonClose)
       IN <<[category |-> SubSeq(h, 2, t - 1), name |-> SubSeq(h, t + 1, e - 1),
             glyph |-> SubSeq(h, e + 1, c - 1)]>>
            \o ParseButtons(SubSeq(h, c + 1, Len(h)))

-----------------------------------------------------------------------------
(* Properties of the message handler, under Spec and FairSpec.             *)

Msgs == 1..Len(messages)

WasHandled(i) == messages[i].phase # "queued"

InsertsWithEditor ==
  {i \in Msgs : /\ messages[i].command = "insertGlyph"
                /\ WasHandled(i)
                /\ messages[i].activeAtHandling # NoEditor}

InsertsWithoutEditor ==
  {i \in Msgs : /\ messages[i].command = "insertGlyph"
                /\ WasHandled(i)
                /\ messages[i].activeAtHandling = NoEditor}

\* C4: an insertGlyph message handled while no editor is active shows the
\* one notice "No active editor to insert glyph into.", submits no edit and
\* reveals no document.
C4_NoActiveEditor ==
  \A i \in InsertsWithoutEditor :
    /\ messages[i].notices = <<"No active editor to insert glyph into.">>
    /\ messages[i].edits = 0
    /\ messages[i].replaced = {}
    /\ messages[i].reveals = 0
    /\ messages[i].shown = NoDocument
    /\ messages[i].phase = "returned"

C4_Witness ==
  \E i \in InsertsWithoutEditor :
    Len(messages[i].notices) = 1 /\ activeTextEditor # NoEditor

\* C5: an insertGlyph message with glyph g handled while an editor is active
\* submits exactly one edit operation, which replaces each of the
\* selections the editor has at that moment, and nothing else, with g.
C5_OneEditAllSelections ==
  \A i \in InsertsWithEditor :
    /\ messages[i].edits = 1
    /\ \A r \in messages[i].selectionsAtHandling :
         [range |-> r, text |-> messages[i].glyph] \in messages[i].replaced
    /\ \A x \in messages[i].replaced :
         x.range \in messages[i].selectionsAtHandling /\ x.text = messages[i].glyph
    /\ messages[i].notices = <<>>

\* an edit over every selection of an editor with several, and an edit at
\* a single cursor
C5_Witness ==
  /\ \E i \in InsertsWithEditor :
       /\ Cardinality(messages[i].replaced) = MaxSelections
       /\ \A x \in messages[i].replaced : x.text = "g"
  /\ \E i \in InsertsWithEditor : Cardinality(messages[i].replaced) = 1

\* C6: the document is revealed at most once per message, never before the
\* message's edit has completed, and once the edit has completed the reveal
\* happens.
C6_RevealAfterEdit ==
  /\ [](\A i \in Msgs :
          /\ messages[i].reveals <= 1
          /\ (messages[i].reveals = 1 <=> messages[i].phase = "revealed")
          /\ (messages[i].reveals = 1 => i \in InsertsWithEditor))
  /\ [][\A i \in Msgs :
          messages'[i].reveals > messages[i].reveals =>
            messages[i].phase = "fulfilled"]_vars
  /\ \A i \in 1..MaxMessages :
       (i \in Msgs /\ messages[i].phase = "fulfilled")
          ~> (i \in Msgs /\ messages[i].phase = "revealed"
                /\ messages[i].reveals = 1)

C6_Witness ==
  \E i \in InsertsWithEditor :
    messages[i].phase = "revealed" /\ messages[i].reveals = 1

OtherCommands == {i \in Msgs : messages[i].command # "insertGlyph" /\ WasHandled(i)}

\* C7: a message with any other command is a no-op, with or without an
\* active editor: no edit, no notice, no reveal.
C7_OtherCommandNoOp ==
  \A i \in OtherCommands :
    /\ messages[i].phase = "returned"
    /\ messages[i].edits = 0
    /\ messages[i].replaced = {}
    /\ messages[i].notices = <<>>
    /\ messages[i].reveals = 0
    /\ messages[i].shown = NoDocument
    /\ messages[i].editor = NoEditor

C7_Witness ==
  /\ \E i \in OtherCommands : messages[i].activeAtHandling # NoEditor
  /\ \E i \in OtherCommands : messages[i].activeAtHandling = NoEditor

InFlight == {i \in Msgs : messages[i].phase \in {"editing", "fulfilled"}}

\* C8 (as claimed): each message is handled to completion, its edit and
\* re-focus included, before the handler of the next message starts, so no
\* two messages have their edit or re-focus in flight at the same time.
C8_OneAtATime ==
  /\ Cardinality(InFlight) <= 1
  /\ \A i, j \in Msgs :
       (i < j /\ WasHandled(j)) => messages[i].phase \in {"returned", "revealed"}

\* C8 (amended): the handlers run one at a time and in posting order, and a
\* handler returns as soon as it has submitted its edit, with the edit still
\* pending and nothing revealed; it touches no other message.  (The edits
\* and re-focus steps of several messages may therefore be in flight
\* together.)
C8_HandlerReturnsBeforeEdit ==
  /\ [](\A i \in Msgs : WasHandled(i) => messages[i].order = i)
  /\ [][\A i \in Msgs :
          (messages[i].phase = "queued" /\ messages'[i].phase # "queued") =>
            /\ \A j \in 1..(i - 1) : messages[j].phase # "queued"
            /\ messages'[i].phase \in {"returned", "editing"}
            /\ messages'[i].reveals = 0
            /\ \A j \in Msgs \ {i} : messages'[j] = messages[j]]_vars

\* two messages with their edits in flight together
C8_Witness ==
  \E i, j \in InFlight : i < j /\ messages[i].phase = "editing"

\* C10: the editor edited for a message is the one that was active when the
\* message's handler ran, and the document revealed afterwards is the
\* document of that editor, whatever is active when the reveal is made.
C10_EditorFixedAtHandling ==
  /\ [](\A i \in InsertsWithEditor :
          /\ messages[i].editor = messages[i].activeAtHandling
          /\ messages[i].phase = "revealed" =>
               messages[i].shown = Document(messages[i].activeAtHandling))
  /\ [][\A i \in Msgs :
          messages'[i].reveals > messages[i].reveals =>
            messages'[i].shown = Document(messages[i].activeAtHandling)]_vars

\* two messages that took different editors, both revealed, each with its
\* own document, while no editor is active any more
C10_Witness ==
  \E i, j \in InsertsWithEditor :
    /\ i < j
    /\ messages[i].editor # messages[j].editor
    /\ messages[i].phase = "revealed" /\ messages[j].phase = "revealed"
    /\ messages[i].shown # messages[j].shown
    /\ activeTextEditor = NoEditor

====
